---- MODULE Spec2Model ----
(***************************************************************************)
(* A model of ftml: the wikitext preprocessor (filter/misc.rs), the rule    *)
(* functions of the backtracking parser (parsing/rule/impls), the          *)
(* conversions of the tree to owned form (tree/clone.rs) and the buffers   *)
(* of the HTML renderer (render/html/context.rs).                          *)
(*                                                                         *)
(* Strings are sequences of characters; a character is one of the names    *)
(* in Chars.  Positions are 1-based.                                       *)
(***************************************************************************)
EXTENDS Integers, Sequences, FiniteSets, TLC

VARIABLES
    input,      \* filter: the string handed to substitute()
    text,       \* filter: the `text: &mut String` being rewritten
    stage,      \* filter: which regex_replace call of substitute() is running (1..6), 7 = returned
    pass,       \* filter: 1 = substitute(x), 2 = substitute(substitute(x))
    first,      \* filter: the output of the first pass
    tokens,     \* parser: the token vector (immutable during a parse)
    interwiki,  \* parser: settings.interwiki, the prefix map of the resolver
    parser,     \* parser: the mutable parser state handed to the rules
    last,       \* parser: what the last rule invocation returned, and from where
    block_body, \* parser: what get_body_elements returned to the last block rule
    subject,    \* tree: the value a to_owned function is called with
    owned,      \* tree: the function that was called, and what it returned
    ctx,        \* render: the HtmlContext (html, write_mode, footnotes)
    frames,     \* render: the write_footnote_block calls whose callback is running
    written,    \* render: the last write through the context, and where it went
    pc          \* render: the position of substitute_footnote_block

filterVars == <<input, text, stage, pass, first>>
parserVars == <<tokens, interwiki, parser, last, block_body>>
treeVars == <<subject, owned>>
renderVars == <<ctx, frames, written, pc>>

vars == <<input, text, stage, pass, first, tokens, interwiki, parser, last,
         block_body, subject, owned, ctx, frames, written, pc>>

\* No conversion to owned form is under way.
NoCall == [fn |-> "none", returned |-> <<>>]

NoTree == subject = [type |-> "none", given |-> <<>>] /\ owned = NoCall

\* No HtmlContext exists.
NoRender == ctx = <<>> /\ frames = <<>> /\ written = <<>> /\ pc = "none"

(***************************************************************************)
(* Bounds                                                                  *)
(***************************************************************************)
MaxLen == 4        \* filter: longest input over the whole alphabet
MaxPieces == 6     \* filter: longest input built from Pieces
MaxLineEnds == 5   \* filter: longest input of letters and line ends
MaxTabs == 5       \* filter: longest input of lines with tabs and spaces
MaxBackslashes == 5 \* filter: longest input of lines with backslashes
MaxLinkSegs == 4   \* parser: segments after the opening bracket of a link input
MaxLines == 2      \* parser: lines of a list or definition-list input
MaxBody == 2       \* parser: elements in the body of a block
MaxDashes == 2     \* parser: tokens of a stream for the em-dash rule
MaxOwned == 2      \* tree: longest list handed to a to_owned function
MaxHtml == 4       \* render: longest html buffer
MaxBuffer == 3     \* render: longest footnote buffer
MaxDepth == 2      \* render: write_footnote_block callbacks running at once
MaxCount == 1      \* render: highest footnote count

(***************************************************************************)
(* filter/misc.rs                                                          *)
(***************************************************************************)
Chars == {"CR", "LF", "TAB", "SP", "BS", "a"}

\* The regex class \s restricted to the alphabet.
IsSpace(c) == c \in {"CR", "LF", "TAB", "SP"}

Min(S) == CHOOSE x \in S : \A y \in S : x <= y
Max(S) == CHOOSE x \in S : \A y \in S : x >= y

NoMatch == <<0, 0>>

\* Leftmost occurrence of the literal `lit` in t, as <<start, end>>.
FindLiteral(t, lit) ==
    LET starts == {i \in 1..(Len(t) - Len(lit) + 1) :
                      \A k \in 1..Len(lit) : t[i + k - 1] = lit[k]}
    IN  IF starts = {} THEN NoMatch
        ELSE <<Min(starts), Min(starts) + Len(lit) - 1>>

\* (?m)^\s+$ : a start of line, a greedy run of whitespace, an end of line.
FindWhitespace(t) ==
    LET LineStart(i) == i = 1 \/ t[i - 1] = "LF"
        LineEnd(e)   == e = Len(t) \/ t[e + 1] = "LF"
        Ends(i)      == {e \in i..Len(t) :
                            LineEnd(e) /\ \A k \in i..e : IsSpace(t[k])}
        starts       == {i \in 1..Len(t) : LineStart(i) /\ Ends(i) # {}}
    IN  IF starts = {} THEN NoMatch
        ELSE <<Min(starts), Max(Ends(Min(starts)))>>

\* (?:\n\s*){3,} : from a newline, the whole whitespace run, when it holds
\* three newlines or more.
FindCompressNewlines(t) ==
    LET RunEnd(i) == Max({e \in i..Len(t) : \A k \in i..e : IsSpace(t[k])})
        Newlines(i) == Cardinality({k \in i..RunEnd(i) : t[k] = "LF"})
        starts == {i \in 1..Len(t) : t[i] = "LF" /\ Newlines(i) >= 3}
    IN  IF starts = {} THEN NoMatch
        ELSE <<Min(starts), RunEnd(Min(starts))>>

DOS_NEWLINES == 1
MAC_NEWLINES == 2
WHITESPACE == 3
CONCAT_BACKSLASHES == 4
TABS == 5
COMPRESS_NEWLINES == 6
Returned == 7

\* Find with MAC_NEWLINES written as \r\r: a lone carriage return is not found.
FindMacDoubled(s, t) ==
    CASE s = DOS_NEWLINES       -> FindLiteral(t, <<"CR", "LF">>)
      [] s = MAC_NEWLINES       -> FindLiteral(t, <<"CR", "CR">>)
      [] s = WHITESPACE         -> FindWhitespace(t)
      [] s = CONCAT_BACKSLASHES -> FindLiteral(t, <<"BS", "LF">>)
      [] s = TABS               -> FindLiteral(t, <<"TAB">>)
      [] s = COMPRESS_NEWLINES  -> FindCompressNewlines(t)

\* Find with WHITESPACE written as ^\s+ : the run need not end a line.
FindWhitespaceOpen(s, t) ==
    CASE s = DOS_NEWLINES       -> FindLiteral(t, <<"CR", "LF">>)
      [] s = MAC_NEWLINES       -> FindLiteral(t, <<"CR">>)
      [] s = WHITESPACE         ->
            LET starts == {i \in 1..Len(t) :
                              /\ i = 1 \/ t[i - 1] = "LF"
                              /\ IsSpace(t[i])}
                i0 == Min(starts)
            IN  IF starts = {} THEN NoMatch
                ELSE <<i0, Max({e \in i0..Len(t) :
                                   \A k \in i0..e : IsSpace(t[k])})>>
      [] s = CONCAT_BACKSLASHES -> FindLiteral(t, <<"BS", "LF">>)
      [] s = TABS               -> FindLiteral(t, <<"TAB">>)
      [] s = COMPRESS_NEWLINES  -> FindCompressNewlines(t)

\* regex.find(text) for the regex of call number s of substitute().
Find(s, t) ==
    CASE s = DOS_NEWLINES       -> FindLiteral(t, <<"CR", "LF">>)
      [] s = MAC_NEWLINES       -> FindLiteral(t, <<"CR">>)
      [] s = WHITESPACE         -> FindWhitespace(t)
      [] s = CONCAT_BACKSLASHES -> FindLiteral(t, <<"BS", "LF">>)
      [] s = TABS               -> FindLiteral(t, <<"TAB">>)
      [] s = COMPRESS_NEWLINES  -> FindCompressNewlines(t)

\* Replacement with the carriage return of MAC_NEWLINES put back: the text
\* after the replacement still holds the match.
Replacement_keeps_cr(s) ==
    CASE s = DOS_NEWLINES       -> <<"LF">>
      [] s = MAC_NEWLINES       -> <<"CR">>
      [] s = WHITESPACE         -> <<>>
      [] s = CONCAT_BACKSLASHES -> <<>>
      [] s = TABS               -> <<"SP", "SP", "SP", "SP">>
      [] s = COMPRESS_NEWLINES  -> <<"LF", "LF">>

\* Replacement with three spaces for a tab.
Replacement_tab_three(s) ==
    CASE s = DOS_NEWLINES       -> <<"LF">>
      [] s = MAC_NEWLINES       -> <<"LF">>
      [] s = WHITESPACE         -> <<>>
      [] s = CONCAT_BACKSLASHES -> <<>>
      [] s = TABS               -> <<"SP", "SP", "SP">>
      [] s = COMPRESS_NEWLINES  -> <<"LF", "LF">>

\* The replacement argument of call number s.
Replacement(s) ==
    CASE s = DOS_NEWLINES       -> <<"LF">>
      [] s = MAC_NEWLINES       -> <<"LF">>
      [] s = WHITESPACE         -> <<>>
      [] s = CONCAT_BACKSLASHES -> <<>>
      [] s = TABS               -> <<"SP", "SP", "SP", "SP">>
      [] s = COMPRESS_NEWLINES  -> <<"LF", "LF">>

\* String::replace_range
ReplaceRange(t, m, r) ==
    SubSeq(t, 1, m[1] - 1) \o r \o SubSeq(t, m[2] + 1, Len(t))

Strings(n) == UNION {[1..k -> Chars] : k \in 0..n}

\* Longer inputs, built from lines, continuations and blanks.
Pieces == {<<"LF">>, <<"BS", "LF">>, <<"a">>, <<"SP">>}

RECURSIVE Flatten(_)
Flatten(ss) == IF ss = <<>> THEN <<>> ELSE Head(ss) \o Flatten(Tail(ss))

PieceStrings(n) == {Flatten(ps) : ps \in UNION {[1..k -> Pieces] : k \in 0..n}}

\* Longer inputs of letters and the three kinds of line end.
LineEndChars == {"CR", "LF", "a"}

LineEndStrings(n) == UNION {[1..k -> LineEndChars] : k \in 0..n}

\* Longer inputs of lines with tabs and spaces.
TabChars == {"TAB", "SP", "LF", "a"}

TabStrings(n) == UNION {[1..k -> TabChars] : k \in 0..n}

\* Longer inputs of lines with backslashes.
BackslashChars == {"BS", "LF", "a"}

BackslashStrings(n) == UNION {[1..k -> BackslashChars] : k \in 0..n}

FilterInputs ==
    Strings(MaxLen) \cup PieceStrings(MaxPieces)
        \cup LineEndStrings(MaxLineEnds) \cup TabStrings(MaxTabs)
        \cup BackslashStrings(MaxBackslashes)

FilterInit ==
    /\ input \in FilterInputs
    /\ text = input
    /\ stage = DOS_NEWLINES
    /\ pass = 1
    /\ first = <<>>
    /\ tokens = <<>>
    /\ interwiki = <<>>
    /\ parser = [pos |-> 0]
    /\ last = <<>>
    /\ block_body = <<>>
    /\ NoTree
    /\ NoRender

\* One iteration of the `while let Some(mtch) = regex.find(text)` loop.
RegexReplace ==
    /\ stage < Returned
    /\ Find(stage, text) # NoMatch
    /\ text' = ReplaceRange(text, Find(stage, text), Replacement(stage))
    /\ UNCHANGED <<input, stage, pass, first>>
    /\ UNCHANGED parserVars
    /\ UNCHANGED <<treeVars, renderVars>>

\* The loop of call number `stage` ends: regex.find(text) is None.
RegexDone ==
    /\ stage < Returned
    /\ Find(stage, text) = NoMatch
    /\ stage' = stage + 1
    /\ UNCHANGED <<input, text, pass, first>>
    /\ UNCHANGED parserVars
    /\ UNCHANGED <<treeVars, renderVars>>

\* The caller hands the output of substitute() to substitute() again.
Resubmit ==
    /\ stage = Returned
    /\ pass = 1
    /\ pass' = 2
    /\ first' = text
    /\ stage' = DOS_NEWLINES
    /\ UNCHANGED <<input, text>>
    /\ UNCHANGED parserVars
    /\ UNCHANGED <<treeVars, renderVars>>

FilterNext == RegexReplace \/ RegexDone \/ Resubmit

SpecFilter == FilterInit /\ [][FilterNext]_vars

(***************************************************************************)
(* Tokens (spec 3, "Token"): a kind and the slice of the input it covers.  *)
(***************************************************************************)
Tok(kind, slice) == [token |-> kind, slice |-> slice]

T_InputStart     == Tok("InputStart", <<>>)
T_InputEnd       == Tok("InputEnd", <<>>)
T_LeftBracket    == Tok("LeftBracket", <<"[">>)
T_LeftBracketStar == Tok("LeftBracketStar", <<"[", "*">>)
T_RightBracket   == Tok("RightBracket", <<"]">>)
T_Whitespace     == Tok("Whitespace", <<" ">>)
T_Whitespace2    == Tok("Whitespace", <<" ", " ">>)
T_LineBreak      == Tok("LineBreak", <<"\n">>)
T_ParagraphBreak == Tok("ParagraphBreak", <<"\n", "\n">>)
T_Colon          == Tok("Colon", <<":">>)
T_BulletItem     == Tok("BulletItem", <<"*">>)
T_NumberedItem   == Tok("NumberedItem", <<"#">>)
T_Slash          == Tok("Other", <<"/">>)
T_DoubleDash     == Tok("DoubleDash", <<"-", "-">>)
\* U+00A0, a character the tokenizer has no token for.
T_Nbsp           == Tok("Other", <<"NBSP">>)
T_Identifier(s)  == Tok("Identifier", s)

(***************************************************************************)
(* Parser state (spec 4.3) and the results of the rules (spec 4.7)         *)
(***************************************************************************)
NoWarn == [kind |-> "None", token |-> 0]

\* parser.make_warn(kind): a warning at the current token.
make_warn(p, kind) == [kind |-> kind, token |-> p.pos]

\* Ok(ParseSuccess { item, exceptions }), with the parser as the callee left it.
Ok(p, value, exceptions) ==
    [kind |-> "ok", parser |-> p, value |-> value,
     exceptions |-> exceptions, warn |-> NoWarn]

\* Err(ParseWarning), with the parser as the callee left it.
Err(p, kind) ==
    [kind |-> "err", parser |-> p, value |-> <<>>,
     exceptions |-> <<>>, warn |-> make_warn(p, kind)]

\* A panic!() or a failed assert!(): the call does not return.
Panic(p) ==
    [kind |-> "panic", parser |-> p, value |-> <<>>,
     exceptions |-> <<>>, warn |-> NoWarn]

\* parser.current()
current(p) == tokens[p.pos]

\* parser.start_of_line(): the token before the current one ends a line.
start_of_line(p) ==
    /\ p.pos > 1
    /\ tokens[p.pos - 1].token \in {"InputStart", "LineBreak", "ParagraphBreak"}

\* parser.step(): fails when it would read past InputEnd.
step(p) ==
    IF p.pos >= Len(tokens)
    THEN Err(p, "EndOfInput")
    ELSE Ok([p EXCEPT !.pos = @ + 1], <<>>, <<>>)

\* parser.step_n(n)
RECURSIVE step_n(_, _)
step_n(p, n) ==
    IF n = 0 THEN Ok(p, <<>>, <<>>)
    ELSE LET r == step(p)
         IN  IF r.kind = "ok" THEN step_n(r.parser, n - 1) ELSE r

\* parser.next_two_tokens(): the current kind and the next one, if any.
next_two_tokens(p) ==
    <<current(p).token,
      IF p.pos + 1 <= Len(tokens) THEN tokens[p.pos + 1].token ELSE "None">>

\* parser.next_three_tokens()
next_three_tokens(p) ==
    <<current(p).token,
      IF p.pos + 1 <= Len(tokens) THEN tokens[p.pos + 1].token ELSE "None",
      IF p.pos + 2 <= Len(tokens) THEN tokens[p.pos + 2].token ELSE "None">>

\* ParseCondition::current(token) and ParseCondition::token_pair(a, b)
Cond_current(t) == [type |-> "current", a |-> t, b |-> "None"]
Cond_token_pair(a, b) == [type |-> "pair", a |-> a, b |-> b]

\* parser.evaluate(condition)
evaluate(p, c) ==
    IF c.type = "current"
    THEN current(p).token = c.a
    ELSE next_two_tokens(p) = <<c.a, c.b>>

\* parser.evaluate_any(conditions)
evaluate_any(p, cs) == \E c \in cs : evaluate(p, c)

\* The end of collect(): the closing token is stepped over unless it is
\* InputEnd, and the collection is returned.
collect_close(p, value, exceptions) ==
    IF current(p).token = "InputEnd"
    THEN Ok(p, value, exceptions)
    ELSE Ok(step(p).parser, value, exceptions)

\* collect_text(parser, rule, close, invalid, None): the source text of the
\* tokens up to the closing one.
RECURSIVE collect_text_from(_, _, _, _)
collect_text_from(p, close, invalid, acc) ==
    IF evaluate_any(p, close) THEN collect_close(p, acc, <<>>)
    ELSE IF evaluate_any(p, invalid) THEN Err(p, "RuleFailed")
    ELSE IF current(p).token = "InputEnd" THEN Err(p, "EndOfInput")
    ELSE collect_text_from(step(p).parser, close, invalid,
                           acc \o current(p).slice)

collect_text(p, close, invalid) == collect_text_from(p, close, invalid, <<>>)

\* check_step(parser, token): the current token is the one given, then step.
check_step(p, t) ==
    IF current(p).token # t THEN Err(p, "RuleFailed") ELSE step(p)

(***************************************************************************)
(* Settings: the interwiki resolver and the URL predicate (spec 6)         *)
(***************************************************************************)
IndexOf(str, c) ==
    LET is == {i \in 1..Len(str) : str[i] = c}
    IN  IF is = {} THEN 0 ELSE Min(is)

\* template.replace("$$", path)
RECURSIVE ReplacePlaceholder(_, _)
ReplacePlaceholder(template, path) ==
    IF template = <<>> THEN <<>>
    ELSE (IF Head(template) = "$$" THEN path ELSE <<Head(template)>>)
         \o ReplacePlaceholder(Tail(template), path)

None == [some |-> FALSE, value |-> <<>>]
Some(v) == [some |-> TRUE, value |-> v]

\* settings.interwiki.build(link): `prefix:path` with a known prefix expands
\* to the prefix's template.
interwiki_build(link) ==
    LET idx == IndexOf(link, ":")
    IN  IF idx <= 1 THEN None
        ELSE LET site == SubSeq(link, 1, idx - 1)
                 path == SubSeq(link, idx + 1, Len(link))
             IN  IF site \in DOMAIN interwiki
                 THEN Some(ReplacePlaceholder(interwiki[site], path))
                 ELSE None

URL_SCHEMES == {<<"h", ":", "/", "/">>}

StartsWith(str, prefix) ==
    /\ Len(str) >= Len(prefix)
    /\ SubSeq(str, 1, Len(prefix)) = prefix

\* url::is_url: a scheme followed by an authority.
is_url(url) ==
    \E scheme \in URL_SCHEMES :
        StartsWith(url, scheme) /\ Len(url) > Len(scheme)

(***************************************************************************)
(* parsing/rule/impls/link_single.rs                                       *)
(***************************************************************************)
\* url_valid that only rejects the empty string.
url_valid_nonempty(url) == url # <<>>

\* url_valid that accepts every string.
url_valid_any(url) == TRUE

url_valid(url) ==
    IF url = <<>> THEN FALSE
    ELSE IF StartsWith(url, <<"/">>) THEN TRUE
    ELSE IF is_url(url) THEN TRUE
    ELSE FALSE

\* char::is_whitespace (the Unicode property White_Space)
IsWhitespaceChar(c) == c \in {" ", "\n", "\t", "NBSP"}

\* str::trim
RECURSIVE trim_start(_)
trim_start(str) ==
    IF str # <<>> /\ IsWhitespaceChar(Head(str)) THEN trim_start(Tail(str))
    ELSE str

RECURSIVE trim_end(_)
trim_end(str) ==
    IF str # <<>> /\ IsWhitespaceChar(str[Len(str)])
    THEN trim_end(SubSeq(str, 1, Len(str) - 1))
    ELSE str

\* trim that leaves the end of the string as it is.
trim_start_only(str) == trim_start(str)

trim(str) == trim_end(trim_start(str))

Element_Text(str) == [element |-> "Text", text |-> str]

Element_Link(url, label, target, iw) ==
    [element |-> "Link", link |-> [location |-> "Url", url |-> url],
     label |-> [label |-> "Text", text |-> label],
     target |-> target, interwiki |-> iw]

\* The `?` operator: a failure of `r` is returned at once, a success is
\* handed on.
Try(r, F(_)) == IF r.kind # "ok" THEN r ELSE F(r)

\* `let v = ...;`
With(v, F(_)) == F(v)

\* try_consume_link that checks url_valid only for a URL the resolver did
\* not expand.
try_consume_link_trusting(p, target) ==
    Try(collect_text(p,
            {Cond_current("Whitespace")},
            {Cond_current("RightBracket"), Cond_current("ParagraphBreak"),
             Cond_current("LineBreak")}),
        LAMBDA original_link :
    With(interwiki_build(original_link.value), LAMBDA built :
    With(IF built.some THEN built.value ELSE original_link.value, LAMBDA url :
        IF ~built.some /\ ~url_valid(url)
        THEN Err(original_link.parser, "InvalidUrl")
        ELSE
        Try(collect_text(original_link.parser,
                {Cond_current("RightBracket")},
                {Cond_current("ParagraphBreak"), Cond_current("LineBreak")}),
            LAMBDA label :
        Ok(label.parser,
           <<Element_Link(url, trim(label.value), target, built.some)>>,
           <<>>)))))

\* try_consume_link(parser, rule, target), entered after the bracket.
try_consume_link(p, target) ==
    Try(collect_text(p,
            {Cond_current("Whitespace")},
            {Cond_current("RightBracket"), Cond_current("ParagraphBreak"),
             Cond_current("LineBreak")}),
        LAMBDA original_link :
    With(interwiki_build(original_link.value), LAMBDA built :
    With(IF built.some THEN built.value ELSE original_link.value, LAMBDA url :
        IF ~url_valid(url) THEN Err(original_link.parser, "InvalidUrl")
        ELSE
        Try(collect_text(original_link.parser,
                {Cond_current("RightBracket")},
                {Cond_current("ParagraphBreak"), Cond_current("LineBreak")}),
            LAMBDA label :
        Ok(label.parser,
           <<Element_Link(url, trim(label.value), target, built.some)>>,
           <<>>)))))

\* link(parser)
link(p) ==
    Try(check_step(p, "LeftBracket"), LAMBDA r :
        try_consume_link(r.parser, "None"))

\* link_new_tab(parser)
link_new_tab(p) ==
    Try(check_step(p, "LeftBracketStar"), LAMBDA r :
        try_consume_link(r.parser, "NewTab"))

(***************************************************************************)
(* Rule dispatch and collection (spec 4.4)                                 *)
(***************************************************************************)
\* Rule::try_consume without the clone: the rule function ran on the parser
\* itself.
Rule_try_consume_in_place(p, result) == result

\* Rule::try_consume: the rule function ran on a clone of the parser and
\* returned `result`; parser.update(sub_parser) only when it succeeded.
Rule_try_consume(p, result) ==
    IF result.kind = "ok" THEN result ELSE [result EXCEPT !.parser = p]

\* The end of consume(): no rule took the token, it becomes text, and the
\* warnings of the rules that failed are the exceptions.
consume_text(p, warnings) ==
    Try(step(p), LAMBDA s :
        Ok(s.parser, <<Element_Text(current(p).slice)>>, warnings))

consume_rule(p, attempt) ==
    IF attempt.kind \in {"ok", "panic"} THEN attempt
    ELSE consume_text(p, <<attempt.warn>>)

\* consume(parser): the rules for the current token are tried in order; the
\* first success is returned.
consume(p) ==
    CASE current(p).token = "LeftBracket" ->
            consume_rule(p, Rule_try_consume(p, link(p)))
      [] current(p).token = "LeftBracketStar" ->
            consume_rule(p, Rule_try_consume(p, link_new_tab(p)))
      [] OTHER -> consume_text(p, <<>>)

\* collect_consume_keep(parser, rule, close, invalid, None): the elements up
\* to the closing token, and the closing token.
RECURSIVE collect_consume_from(_, _, _, _, _)
collect_consume_from(p, close, invalid, elements, exceptions) ==
    IF evaluate_any(p, close)
    THEN collect_close(p, [elements |-> elements, last |-> current(p)], exceptions)
    ELSE IF evaluate_any(p, invalid) THEN Err(p, "RuleFailed")
    ELSE IF current(p).token = "InputEnd" THEN Err(p, "EndOfInput")
    ELSE Try(consume(p), LAMBDA r :
             collect_consume_from(r.parser, close, invalid,
                                  elements \o r.value,
                                  exceptions \o r.exceptions))

collect_consume_keep(p, close, invalid) ==
    collect_consume_from(p, close, invalid, <<>>, <<>>)

\* collect_consume(parser, rule, close, invalid, None)
collect_consume(p, close, invalid) ==
    Try(collect_consume_keep(p, close, invalid), LAMBDA r :
        [r EXCEPT !.value = @.elements])

\* strip_whitespace(&mut elements): whitespace is removed from both sides.
IsWhitespaceElement(e) ==
    e.element = "Text" /\ \A i \in 1..Len(e.text) : IsWhitespaceChar(e.text[i])

RECURSIVE strip_whitespace_start(_)
strip_whitespace_start(es) ==
    IF es # <<>> /\ IsWhitespaceElement(Head(es))
    THEN strip_whitespace_start(Tail(es))
    ELSE es

RECURSIVE strip_whitespace_end(_)
strip_whitespace_end(es) ==
    IF es # <<>> /\ IsWhitespaceElement(es[Len(es)])
    THEN strip_whitespace_end(SubSeq(es, 1, Len(es) - 1))
    ELSE es

strip_whitespace(es) == strip_whitespace_end(strip_whitespace_start(es))

(***************************************************************************)
(* parsing/rule/impls/definition_list.rs                                   *)
(***************************************************************************)
\* skip_newline(parser)
skip_newline(p) ==
    IF next_three_tokens(p) = <<"LineBreak", "Colon", "Whitespace">>
    THEN Ok(p, <<>>, <<>>)
    ELSE Err(p, "RuleFailed")

\* The close conditions of the value collection, widened by Colon.
parse_item_value_close_colon ==
    {Cond_current("ParagraphBreak"), Cond_current("LineBreak"),
     Cond_current("InputEnd"), Cond_current("Colon")}

\* The close conditions of the value collection in parse_item.
parse_item_value_close ==
    {Cond_current("ParagraphBreak"), Cond_current("LineBreak"),
     Cond_current("InputEnd")}

\* should_break that ends the list only at the end of the input.
should_break_at_input_end(token) == token = "InputEnd"

\* `should_break` of parse_item: some ending tokens designate a definite end.
should_break(token) == token \in {"ParagraphBreak", "InputEnd"}

\* parse_item(parser): Ok((DefinitionListItem { key, value }, should_break))
parse_item(p) ==
    IF ~start_of_line(p) THEN Err(p, "RuleFailed")
    ELSE IF next_two_tokens(p) # <<"Colon", "Whitespace">> THEN Err(p, "RuleFailed")
    ELSE
    Try(step_n(p, 2), LAMBDA s1 :
    Try(collect_consume(s1.parser,
            {Cond_token_pair("Whitespace", "Colon")},
            {Cond_current("ParagraphBreak"), Cond_current("LineBreak")}),
        LAMBDA key :
    Try(step_n(key.parser, 2), LAMBDA s2 :
    Try(collect_consume_keep(s2.parser, parse_item_value_close, {}),
        LAMBDA value :
        IF value.value.last.token \notin {"ParagraphBreak", "InputEnd", "LineBreak"}
        THEN Panic(value.parser)
        ELSE Ok(value.parser,
                [item |-> [key |-> strip_whitespace(key.value),
                           value |-> strip_whitespace(value.value.elements)],
                 should_break |-> should_break(value.value.last.token)],
                key.exceptions \o value.exceptions)))))

Element_DefinitionList(items) == [element |-> "DefinitionList", items |-> items]

\* The `loop` of parse_definition_list with parse_item run on the parser
\* itself instead of a clone.
RECURSIVE parse_definition_list_loop_in_place(_, _)
parse_definition_list_loop_in_place(p, items) ==
    With(parse_item(p), LAMBDA r :
        IF r.kind = "ok"
        THEN IF r.value.should_break
             THEN Ok(r.parser, Append(items, r.value.item), <<>>)
             ELSE parse_definition_list_loop_in_place(r.parser,
                      Append(items, r.value.item))
        ELSE IF r.kind = "panic" THEN r
        ELSE Ok(r.parser, items, <<>>))

\* The `loop` of parse_definition_list: each attempt runs on a clone of the
\* parser, and the parser is updated from the clone when it succeeded.  The
\* result holds the parser and the items when the loop is left.
RECURSIVE parse_definition_list_loop(_, _)
parse_definition_list_loop(p, items) ==
    With(parse_item(p), LAMBDA r :
        IF r.kind = "ok"
        THEN IF r.value.should_break
             THEN Ok(r.parser, Append(items, r.value.item), <<>>)
             ELSE parse_definition_list_loop(r.parser, Append(items, r.value.item))
        ELSE IF r.kind = "panic" THEN r
        ELSE Ok(p, items, <<>>))

\* parse_definition_list(parser): the exceptions of the items are chained
\* into a local vector that the result does not take.
parse_definition_list(p) ==
    Try(parse_item(p), LAMBDA head :
    Try(IF head.value.should_break
        THEN Ok(head.parser, <<head.value.item>>, <<>>)
        ELSE parse_definition_list_loop(head.parser, <<head.value.item>>),
        LAMBDA rest :
        Ok(rest.parser, <<Element_DefinitionList(rest.value)>>, <<>>)))

(***************************************************************************)
(* parsing/rule/impls/list.rs                                              *)
(***************************************************************************)
get_list_type(token) ==
    CASE token = "BulletItem" -> Some("Bullet")
      [] token = "NumberedItem" -> Some("Numbered")
      [] OTHER -> None

\* top_list_type set from every bullet token.
record_top_list_type_always(top, list_type) == list_type

\* `if top_list_type.is_none() { top_list_type = Some(list_type); }`
record_top_list_type(top, list_type) == IF top.some THEN top ELSE list_type

\* The content of a list item with no invalid condition.
list_item_invalid_none == {}

\* The invalid conditions of the collection of a list item's content.
list_item_invalid == {Cond_current("ParagraphBreak")}

\* The `loop` of try_consume_fn is left by a `break`.
ListBreak(p, top, depths, exceptions) ==
    [kind |-> "break", parser |-> p, top_list_type |-> top,
     depths |-> depths, exceptions |-> exceptions]

\* One pass of the `loop` after the other, until a `break` or a failing `?`.
RECURSIVE list_loop(_, _, _, _)
list_loop(p, top, depths, exceptions) ==
    IF current(p).token \notin {"Whitespace", "BulletItem", "NumberedItem"}
    THEN ListBreak(p, top, depths, exceptions)
    ELSE
    Try(IF current(p).token = "Whitespace" THEN step(p) ELSE Ok(p, <<>>, <<>>),
        LAMBDA s1 :
    With(IF current(p).token = "Whitespace" THEN Len(current(p).slice) ELSE 0,
        LAMBDA depth :
    With(get_list_type(current(s1.parser).token), LAMBDA list_type :
        IF ~list_type.some
        THEN ListBreak(s1.parser, top, depths, exceptions)
        ELSE
        With(record_top_list_type(top, list_type), LAMBDA top1 :
        Try(step(s1.parser), LAMBDA s2 :
            IF current(s2.parser).token # "Whitespace"
            THEN ListBreak(s2.parser, top1, depths, exceptions)
            ELSE
            Try(step(s2.parser), LAMBDA s3 :
            Try(collect_consume(s3.parser,
                    {Cond_current("LineBreak"), Cond_current("InputEnd")},
                    list_item_invalid),
                LAMBDA elements :
                list_loop(elements.parser, top1,
                    Append(depths, [depth |-> depth,
                                    ltype |-> list_type.value,
                                    elements |-> elements.value]),
                    exceptions \o elements.exceptions))))))))

\* DepthItem::Item(elements) and DepthItem::List(ltype, list)
DepthItem_Item(elements) == [kind |-> "Item", elements |-> elements]
DepthItem_List(ltype, list) == [kind |-> "List", ltype |-> ltype, list |-> list]

\* The stack of process_depths: one frame for each open list, the top-level
\* list first.  A deeper item opens a list for every step of depth, a
\* shallower one closes as many; a closed list becomes an item of the list
\* that holds it.
increase_depth(stack, ltype) ==
    Append(stack, [ltype |-> ltype, items |-> <<>>])

decrease_depth(stack) ==
    [SubSeq(stack, 1, Len(stack) - 1) EXCEPT
        ![Len(stack) - 1].items =
            Append(@, DepthItem_List(stack[Len(stack)].ltype,
                                     stack[Len(stack)].items))]

RECURSIVE increase_depth_n(_, _, _)
increase_depth_n(stack, ltype, n) ==
    IF n = 0 THEN stack
    ELSE increase_depth_n(increase_depth(stack, ltype), ltype, n - 1)

RECURSIVE decrease_depth_n(_, _)
decrease_depth_n(stack, n) ==
    IF n = 0 THEN stack ELSE decrease_depth_n(decrease_depth(stack), n - 1)

push_item(stack, elements) ==
    [stack EXCEPT ![Len(stack)].items = Append(@, DepthItem_Item(elements))]

RECURSIVE process_depths_from(_, _, _)
process_depths_from(stack, previous, depths) ==
    IF depths = <<>> THEN decrease_depth_n(stack, Len(stack) - 1)[1].items
    ELSE process_depths_from(
            push_item(
                IF Head(depths).depth >= previous
                THEN increase_depth_n(stack, Head(depths).ltype,
                                      Head(depths).depth - previous)
                ELSE decrease_depth_n(stack, previous - Head(depths).depth),
                Head(depths).elements),
            Head(depths).depth,
            Tail(depths))

\* process_depths(top_ltype, depths): the DepthList of the flat depths
process_depths(top_ltype, depths) ==
    process_depths_from(<<[ltype |-> top_ltype, items |-> <<>>]>>, 0, depths)

ListItem_Elements(elements) == [item |-> "Elements", elements |-> elements]
ListItem_SubList(element) == [item |-> "SubList", element |-> element]

Element_List(ltype, items) ==
    [element |-> "List", ltype |-> ltype, items |-> items]

\* build_list_element that gives a nested list the type of the list that
\* holds it.
RECURSIVE build_list_element_top_type(_, _)
build_list_element_top_type(list, top_ltype) ==
    Element_List(top_ltype,
        [i \in 1..Len(list) |->
            IF list[i].kind = "Item"
            THEN ListItem_Elements(list[i].elements)
            ELSE ListItem_SubList(
                     build_list_element_top_type(list[i].list, top_ltype))])

\* build_list_element(list, top_ltype)
RECURSIVE build_list_element(_, _)
build_list_element(list, top_ltype) ==
    Element_List(top_ltype,
        [i \in 1..Len(list) |->
            IF list[i].kind = "Item"
            THEN ListItem_Elements(list[i].elements)
            ELSE ListItem_SubList(
                     build_list_element(list[i].list, list[i].ltype))])

\* try_consume_fn without the test of `depths.is_empty()`.
list_try_consume_fn_unchecked(p) ==
    IF current(p).token \notin {"InputStart", "LineBreak"} THEN Panic(p)
    ELSE
    Try(step(p), LAMBDA s0 :
    With(list_loop(s0.parser, None, <<>>, <<>>), LAMBDA l :
        IF l.kind # "break" THEN l
        ELSE IF ~l.top_list_type.some THEN Panic(l.parser)
        ELSE Ok(l.parser,
                <<build_list_element(
                      process_depths(l.top_list_type.value, l.depths),
                      l.top_list_type.value)>>,
                l.exceptions)))

\* try_consume_fn(log, parser) of RULE_LIST
list_try_consume_fn(p) ==
    IF current(p).token \notin {"InputStart", "LineBreak"} THEN Panic(p)
    ELSE
    Try(step(p), LAMBDA s0 :
    With(list_loop(s0.parser, None, <<>>, <<>>), LAMBDA l :
        IF l.kind # "break" THEN l
        ELSE IF l.depths = <<>> THEN Err(l.parser, "RuleFailed")
        ELSE IF ~l.top_list_type.some THEN Panic(l.parser)
        ELSE Ok(l.parser,
                <<build_list_element(
                      process_depths(l.top_list_type.value, l.depths),
                      l.top_list_type.value)>>,
                l.exceptions)))

(***************************************************************************)
(* parsing/rule/impls/block/blocks/ruby.rs                                 *)
(***************************************************************************)
\* BLOCK_RUBY declared with accepts_star: true.
BLOCK_RUBY_accepts_star ==
    [name |-> "block-ruby", accepts_names |-> {"ruby"},
     accepts_star |-> TRUE, accepts_score |-> FALSE, accepts_newlines |-> TRUE]

BLOCK_RUBY ==
    [name |-> "block-ruby", accepts_names |-> {"ruby"},
     accepts_star |-> FALSE, accepts_score |-> FALSE, accepts_newlines |-> TRUE]

BLOCK_RT ==
    [name |-> "block-ruby-text", accepts_names |-> {"rubytext", "rt"},
     accepts_star |-> FALSE, accepts_score |-> FALSE, accepts_newlines |-> TRUE]

Element_Container(ctype, elements, attributes) ==
    [element |-> "Container", ctype |-> ctype,
     elements |-> elements, attributes |-> attributes]

Element_Partial_RubyText(elements, attributes) ==
    [element |-> "Partial", partial |-> "RubyText",
     elements |-> elements, attributes |-> attributes]

\* The conversion with the attributes of the container left at their
\* default, what mem::take leaves behind.
convert_ruby_partials_default(elements) ==
    [i \in 1..Len(elements) |->
        IF elements[i].element = "Partial" /\ elements[i].partial = "RubyText"
        THEN Element_Container("RubyText", elements[i].elements, "none")
        ELSE elements[i]]

\* The `for element in &mut elements` loop of parse_block: a RubyText
\* partial among the elements becomes a RubyText container.
convert_ruby_partials(elements) ==
    [i \in 1..Len(elements) |->
        IF elements[i].element = "Partial" /\ elements[i].partial = "RubyText"
        THEN Element_Container("RubyText", elements[i].elements,
                               elements[i].attributes)
        ELSE elements[i]]

\* parse_block of BLOCK_RUBY; `head` and `body` are what get_head_map and
\* get_body_elements returned, with the parser as they left it.
ruby_parse_block(p, name, flag_star, flag_score, head, body) ==
    IF flag_star THEN Panic(p)
    ELSE IF flag_score THEN Panic(p)
    ELSE IF name \notin BLOCK_RUBY.accepts_names THEN Panic(p)
    ELSE IF head.kind # "ok" THEN head
    ELSE IF body.kind # "ok" THEN body
    ELSE Ok(body.parser,
            <<Element_Container("Ruby", convert_ruby_partials(body.value),
                                head.value)>>,
            body.exceptions)

\* parse_text of BLOCK_RT
ruby_parse_text(p, name, flag_star, flag_score, head, body) ==
    IF flag_star THEN Panic(p)
    ELSE IF flag_score THEN Panic(p)
    ELSE IF name \notin BLOCK_RT.accepts_names THEN Panic(p)
    ELSE IF head.kind # "ok" THEN head
    ELSE IF body.kind # "ok" THEN body
    ELSE Ok(body.parser,
            <<Element_Partial_RubyText(body.value, head.value)>>,
            body.exceptions)

\* Block dispatch (spec 4.4): the rule is found by the name in the head, a
\* flag the rule does not accept fails the block, and a partial is an
\* error where the enclosing scope does not accept it.
block_dispatch(p, rule, name, flag_star, flag_score, head, body) ==
    IF flag_star /\ ~rule.accepts_star THEN Err(p, "BlockDisallowsStar")
    ELSE IF flag_score /\ ~rule.accepts_score THEN Err(p, "BlockDisallowsScore")
    ELSE IF rule.name = "block-ruby"
    THEN ruby_parse_block(p, name, flag_star, flag_score, head, body)
    ELSE LET r == ruby_parse_text(p, name, flag_star, flag_score, head, body)
         IN  IF r.kind = "ok" THEN Err(p, "RubyTextOutsideRuby") ELSE r

(***************************************************************************)
(* Inputs of the parser: token vectors as the tokenizer produces them      *)
(* (spec 4.2), the interwiki maps, the bodies of blocks.                   *)
(***************************************************************************)
Seqs(S, n) == UNION {[1..k -> S] : k \in 0..n}

\* Adjacent whitespace is one Whitespace token, adjacent identifier
\* characters one Identifier, adjacent newlines one ParagraphBreak.
WellTokenized(ts) ==
    \A i \in 1..(Len(ts) - 1) :
        /\ ~(ts[i].token = "Whitespace" /\ ts[i + 1].token = "Whitespace")
        /\ ~(ts[i].token = "Identifier" /\ ts[i + 1].token = "Identifier")
        /\ ~(ts[i].token \in {"LineBreak", "ParagraphBreak"}
             /\ ts[i + 1].token \in {"LineBreak", "ParagraphBreak"})

Stream(ts) == <<T_InputStart>> \o ts \o <<T_InputEnd>>

Id(c) == T_Identifier(<<c>>)

LinkSegments ==
    {<<T_RightBracket>>, <<T_Whitespace>>, <<T_LineBreak>>, <<T_ParagraphBreak>>,
     <<T_Identifier(<<"w", "p">>), T_Colon, Id("a")>>,
     <<T_Slash, Id("a")>>,
     <<Id("b")>>,
     <<Id("b"), T_Whitespace>>}

LinkStreams ==
    {st \in {Stream(<<open>> \o Flatten(segs)) :
                open \in {T_LeftBracket, T_LeftBracketStar},
                segs \in Seqs(LinkSegments, MaxLinkSegs)} :
        WellTokenized(st)}

\* Templates of the prefix `wp`: a URL, and the bare path.
InterwikiMaps ==
    {[site \in {<<"w", "p">>} |-> <<"h", ":", "/", "/", "w", "/", "$$">>],
     [site \in {<<"w", "p">>} |-> <<"$$">>]}

NoInterwiki == [site \in {} |-> <<>>]

\* Lines end with a LineBreak or a ParagraphBreak; the last one may end
\* with the input.
RECURSIVE JoinLines(_, _)
JoinLines(lines, ends) ==
    IF lines = <<>> THEN <<>>
    ELSE Head(lines) \o Head(ends) \o JoinLines(Tail(lines), Tail(ends))

LineEnds == {<<T_LineBreak>>, <<T_ParagraphBreak>>}

LineStreams(Lines) ==
    {st \in UNION {
        {Stream(JoinLines(ls, es)) :
            ls \in [1..n -> Lines],
            es \in {e \in [1..n -> LineEnds \cup {<<>>}] :
                       \A i \in 1..(n - 1) : e[i] # <<>>}} :
        n \in 1..MaxLines} :
      WellTokenized(st)}

DefinitionLines ==
    {<<Id("k")>>,
     <<T_Colon, T_Whitespace, T_Nbsp, T_Whitespace, T_Colon, T_Whitespace, Id("v")>>}
    \cup
    {<<T_Colon, T_Whitespace>> \o key \o tail :
        key \in {<<Id("k")>>, <<T_LeftBracket, Id("k")>>},
        tail \in {<<T_Whitespace, T_Colon, T_Whitespace, Id("v")>>,
                  <<T_Whitespace, T_Colon, T_Whitespace, T_LeftBracket>>,
                  <<T_Whitespace, T_Colon>>,
                  <<>>}}

ListLines ==
    {indent \o item :
        indent \in {<<>>, <<T_Whitespace>>, <<T_Whitespace2>>},
        item \in {<<T_BulletItem, T_Whitespace, Id("x")>>,
                  <<T_NumberedItem, T_Whitespace, Id("x")>>}}
    \cup {<<T_BulletItem, T_Whitespace, T_LeftBracket>>,
          <<T_BulletItem, Id("x")>>,
          <<Id("x")>>,
          <<T_Whitespace, Id("x")>>}

T_LeftBlock     == Tok("LeftBlock", <<"[", "[">>)
T_LeftBlockStar == Tok("LeftBlockStar", <<"[", "[", "*">>)

\* A block: its opening token; what follows it (the name, the head, the
\* body up to the end of the block) is given to the rule as what the
\* parser's get_head_map and get_body_elements returned.
BlockStreams == {Stream(<<open>>) : open \in {T_LeftBlock, T_LeftBlockStar}}

\* The streams the em-dash rule is run on: its sigil and other tokens.
EmDashTokens == {T_DoubleDash, T_LeftBracket, T_Colon, T_LineBreak, Id("a")}

EmDashStreams ==
    {st \in {Stream(ts) : ts \in Seqs(EmDashTokens, MaxDashes)} :
        WellTokenized(st)}

Attributes == {"none", "lang"}

\* The elements a body can hold where the scope accepts the partials in
\* `accepts`: text, ruby text, and a styled container around either.
BodyLeaves(accepts) ==
    {Element_Text(<<"x">>)}
    \cup (IF accepts = "Ruby"
          THEN {Element_Partial_RubyText(<<>>, a) : a \in Attributes}
          ELSE {})

BodyElements(accepts) ==
    BodyLeaves(accepts)
    \cup {Element_Container("Bold", <<e>>, "none") : e \in BodyLeaves(accepts)}
    \cup (IF accepts = "Ruby"
          THEN {Element_Partial_RubyText(<<e>>, "lang") : e \in BodyLeaves(accepts)}
          ELSE {})

Bodies(accepts) == Seqs(BodyElements(accepts), MaxBody)

(***************************************************************************)
(* The parse: the rules for the current token are tried on the parser;     *)
(* when all of them fail the token is consumed as text (spec 4.4).         *)
(***************************************************************************)
Attempt(rule, before, result) ==
    [rule |-> rule, before |-> before, result |-> result]

NoResult ==
    [kind |-> "none", parser |-> [pos |-> 1], value |-> <<>>,
     exceptions |-> <<>>, warn |-> NoWarn]

TokenRules == {"link-single", "link-single-new-tab", "list",
               "definition-list", "definition-list-skip-newline"}

\* The rules tried for the kind of the current token.
RuleApplies(rule, p) ==
    LET tok == current(p).token
    IN  CASE rule = "link-single" -> tok = "LeftBracket"
          [] rule = "link-single-new-tab" -> tok = "LeftBracketStar"
          [] rule = "list" -> tok \in {"InputStart", "LineBreak"}
          [] rule = "definition-list" -> tok = "Colon"
          [] rule = "definition-list-skip-newline" -> tok = "LineBreak"

\* The em-dash rule that consumes nothing.
em_dash_try_consume_offset_zero(extract, next) ==
    [some |-> TRUE,
     value |-> [offset |-> 0, element |-> Element_Text(<<"EM_DASH">>)]]

\* em_dash.rs try_consume(log, _extract, _next): Some(RuleResult) whatever
\* the token and the tokens after it.
em_dash_try_consume(extract, next) ==
    [some |-> TRUE,
     value |-> [offset |-> 1, element |-> Element_Text(<<"EM_DASH">>)]]

\* The caller of a rule that returns Option<RuleResult>: the rule is given
\* the current token and the tokens after it, and on Some the element is
\* taken and `offset` tokens are consumed.
RunOffsetRule(p, result) ==
    IF result.some
    THEN Ok([p EXCEPT !.pos = @ + result.value.offset],
            <<result.value.element>>, <<>>)
    ELSE Err(p, "RuleFailed")

\* rule.try_consume(parser)
RunRule(rule, p) ==
    CASE rule = "link-single" -> Rule_try_consume(p, link(p))
      [] rule = "link-single-new-tab" -> Rule_try_consume(p, link_new_tab(p))
      [] rule = "list" -> Rule_try_consume(p, list_try_consume_fn(p))
      [] rule = "definition-list" -> Rule_try_consume(p, parse_definition_list(p))
      [] rule = "definition-list-skip-newline" -> Rule_try_consume(p, skip_newline(p))

ParserInit ==
    /\ \/ tokens \in LinkStreams /\ interwiki \in InterwikiMaps
       \/ tokens \in LineStreams(DefinitionLines) /\ interwiki = NoInterwiki
       \/ tokens \in LineStreams(ListLines) /\ interwiki = NoInterwiki
       \/ tokens \in BlockStreams /\ interwiki = NoInterwiki
       \/ tokens \in EmDashStreams /\ interwiki = NoInterwiki
    /\ parser = [pos |-> 1]
    /\ last = Attempt("none", [pos |-> 1], NoResult)
    /\ block_body = NoResult
    /\ input = <<>>
    /\ text = <<>>
    /\ stage = Returned
    /\ pass = 2
    /\ first = <<>>
    /\ NoTree
    /\ NoRender

\* The step of the parser that tries `rule` at the current token.
TryRule(rule) ==
    /\ last.result.kind # "panic"
    /\ last' = Attempt(rule, parser, RunRule(rule, parser))
    /\ parser' = last'.result.parser
    /\ UNCHANGED <<tokens, interwiki, block_body>>
    /\ UNCHANGED filterVars
    /\ UNCHANGED <<treeVars, renderVars>>

Link ==
    /\ RuleApplies("link-single", parser)
    /\ TryRule("link-single")

LinkNewTab ==
    /\ RuleApplies("link-single-new-tab", parser)
    /\ TryRule("link-single-new-tab")

List ==
    /\ RuleApplies("list", parser)
    /\ TryRule("list")

DefinitionList ==
    /\ RuleApplies("definition-list", parser)
    /\ TryRule("definition-list")

SkipNewline ==
    /\ RuleApplies("definition-list-skip-newline", parser)
    /\ TryRule("definition-list-skip-newline")

\* A block rule is run for the block that opens at the current token; it
\* is run once there, and a token whose block rule failed falls to text.
Block ==
    /\ last.result.kind # "panic"
    /\ current(parser).token \in {"LeftBlock", "LeftBlockStar"}
    /\ ~(last.rule \in {BLOCK_RUBY.name, BLOCK_RT.name} /\ last.before = parser)
    /\ \E rule \in {BLOCK_RUBY, BLOCK_RT}, flag_score \in BOOLEAN :
       \E name \in rule.accepts_names :
       \E head \in {Ok(parser, a, <<>>) : a \in Attributes}
                   \cup {Err(parser, "BlockMalformedArguments")} :
       \E body \in {Ok(step(parser).parser, es, <<>>) :
                        es \in Bodies(IF rule = BLOCK_RUBY THEN "Ruby" ELSE "None")}
                   \cup {Err(parser, "BlockMissingClose")} :
          /\ block_body' = body
          /\ last' = Attempt(rule.name, parser,
                      Rule_try_consume(parser,
                          block_dispatch(parser, rule, name,
                              current(parser).token = "LeftBlockStar",
                              flag_score, head, body)))
    /\ parser' = last'.result.parser
    /\ UNCHANGED <<tokens, interwiki>>
    /\ UNCHANGED filterVars
    /\ UNCHANGED <<treeVars, renderVars>>

\* No rule for the current token succeeds: it is consumed as text.
Fallback ==
    /\ last.result.kind # "panic"
    /\ current(parser).token # "InputEnd"
    /\ \A rule \in TokenRules :
          RuleApplies(rule, parser) => RunRule(rule, parser).kind # "ok"
    /\ last' = Attempt("text", parser,
                   Ok(step(parser).parser,
                      <<Element_Text(current(parser).slice)>>, <<>>))
    /\ parser' = last'.result.parser
    /\ UNCHANGED <<tokens, interwiki, block_body>>
    /\ UNCHANGED filterVars
    /\ UNCHANGED <<treeVars, renderVars>>

\* The em-dash rule is run at the current token, whatever it is, of a
\* stream of EmDashStreams.
EmDash ==
    /\ last.result.kind # "panic"
    /\ tokens \in EmDashStreams
    /\ current(parser).token # "InputEnd"
    /\ last' = Attempt("em-dash", parser,
                   RunOffsetRule(parser,
                       em_dash_try_consume(current(parser),
                           SubSeq(tokens, parser.pos + 1, Len(tokens)))))
    /\ parser' = last'.result.parser
    /\ UNCHANGED <<tokens, interwiki, block_body>>
    /\ UNCHANGED filterVars
    /\ UNCHANGED <<treeVars, renderVars>>

Next ==
    \/ Link
    \/ LinkNewTab
    \/ List
    \/ DefinitionList
    \/ SkipNewline
    \/ Block
    \/ EmDash
    \/ Fallback

Spec == ParserInit /\ [][Next]_vars

(***************************************************************************)
(* Claims about the preprocessor                                           *)
(***************************************************************************)
Contains(t, lit) == FindLiteral(t, lit) # NoMatch

\* Three newlines with only whitespace between them.
HasNewlineRun(t) ==
    \E i, j, k \in 1..Len(t) :
        /\ i < j /\ j < k
        /\ t[i] = "LF" /\ t[j] = "LF" /\ t[k] = "LF"
        /\ \A m \in i..k : IsSpace(t[m])

\* C2: substitute is idempotent: running it on its own output changes
\* nothing, substitute(substitute(x)) = substitute(x) for every x.
C2_Idempotent ==
    (pass = 2 /\ stage = Returned) => text = first

\* C3: the output of substitute holds no carriage return, no tab, no
\* backslash directly followed by a newline, and no run of three or more
\* newlines separated only by whitespace.
C3_FixedPoints ==
    (stage = Returned) =>
        /\ ~Contains(text, <<"CR">>)
        /\ ~Contains(text, <<"TAB">>)
        /\ ~Contains(text, <<"BS", "LF">>)
        /\ ~HasNewlineRun(text)

\* substitute has returned for an input that held a carriage return, a tab
\* and a line continuation, and something is left of it.
C3_Witness ==
    /\ stage = Returned /\ pass = 1
    /\ Contains(input, <<"CR">>)
    /\ Contains(input, <<"TAB">>)
    /\ Contains(input, <<"BS", "LF">>)
    /\ text # <<>>

\* The last call of substitute finds a run of newlines to compress: the
\* earlier calls left one (a continuation line joined two blank lines).
C3_WitnessRun ==
    /\ stage = COMPRESS_NEWLINES /\ pass = 1
    /\ Find(stage, text) # NoMatch

(***************************************************************************)
(* Claims about the parser                                                 *)
(***************************************************************************)
LinkRules == {"link-single", "link-single-new-tab"}

Succeeded(rules) == last.rule \in rules /\ last.result.kind = "ok"
Failed(rules) == last.rule \in rules /\ last.result.kind = "err"

RECURSIVE HasPartial(_)
HasPartial(e) ==
    \/ e.element = "Partial"
    \/ /\ e.element = "Container"
       /\ \E i \in 1..Len(e.elements) : HasPartial(e.elements[i])

\* C4: after the ruby block rule succeeds, the Ruby container it returns
\* holds no Partial at any depth, for every body the ruby scope accepts,
\* also with ruby text nested inside other containers of the body.
C4_NoPartialAtAnyDepth ==
    Succeeded({"block-ruby"}) => ~HasPartial(last.result.value[1])

RECURSIVE AfterItems(_, _)
AfterItems(p, n) ==
    IF n = 0 THEN p ELSE AfterItems(parse_item(p).parser, n - 1)

\* C6: in the definition-list rule a failed attempt at a second or later
\* item is rolled back completely: after it the parser is at the position
\* that follows the last item parsed with success, and neither the warning
\* of the failure nor an exception of the failed attempt is in the result.
C6_FailedItemRolledBack ==
    Succeeded({"definition-list"}) =>
        LET items == last.result.value[1].items
            after == AfterItems(last.before, Len(items))
            next == parse_item(after)
        IN  /\ \A k \in 0..(Len(items) - 1) :
                  parse_item(AfterItems(last.before, k)).kind = "ok"
            /\ last.result.parser = after
            /\ parser = after
            /\ next.kind = "err" =>
                  /\ next.warn \notin {last.result.exceptions[i] :
                                          i \in DOMAIN last.result.exceptions}
                  /\ \A i \in DOMAIN last.result.exceptions :
                        last.result.exceptions[i].token < after.pos

\* The definition-list rule succeeded and its last attempt at an item had
\* failed after it had stepped into the line.
C6_Witness ==
    /\ Succeeded({"definition-list"})
    /\ LET after == AfterItems(last.before,
                        Len(last.result.value[1].items))
       IN  /\ parse_item(after).kind = "err"
           /\ parse_item(after).parser.pos > after.pos + 2

\* C7: every Link the single-bracket link rule produces has a non-empty URL
\* that starts with `/` or satisfies is_url, for every input and every
\* interwiki map, also when the URL is an expansion of the resolver.
C7_LinkUrlValid ==
    Succeeded(LinkRules) =>
        LET url == last.result.value[1].link.url
        IN  /\ last.result.value[1].element = "Link"
            /\ url # <<>>
            /\ (url[1] = "/" \/ is_url(url))

\* The link rule succeeded with an expansion of the resolver as its URL.
C7_Witness ==
    /\ Succeeded(LinkRules)
    /\ last.result.value[1].interwiki

\* C8: when the token right after `[` (or `[*`) is Whitespace, the URL text
\* is empty and the link rule fails with the warning InvalidUrl; there is
\* no Link.
C8_EmptyUrlFails ==
    (/\ last.rule \in LinkRules
     /\ tokens[last.before.pos + 1].token = "Whitespace") =>
        /\ last.result.kind = "err"
        /\ last.result.warn.kind = "InvalidUrl"

\* The new-tab link rule ran on `[*` followed by whitespace.
C8_Witness ==
    /\ last.rule = "link-single-new-tab"
    /\ tokens[last.before.pos + 1].token = "Whitespace"
    /\ last.result.kind = "err"

\* What the link rule invoked at `before` collects as the URL text.
OriginalLink(before) ==
    collect_text([before EXCEPT !.pos = @ + 1],
                 {Cond_current("Whitespace")},
                 {Cond_current("RightBracket"), Cond_current("ParagraphBreak"),
                  Cond_current("LineBreak")})

\* C9 as stated: a URL text the resolver accepts is not asked to start with
\* `/` or to satisfy is_url; InvalidUrl is only for what the resolver does
\* not accept.
C9_ValidityOnlyWithoutInterwiki ==
    (/\ last.rule \in LinkRules
     /\ OriginalLink(last.before).kind = "ok"
     /\ interwiki_build(OriginalLink(last.before).value).some) =>
        ~(last.result.kind = "err" /\ last.result.warn.kind = "InvalidUrl")

\* C9 amended: a URL text the resolver accepts is replaced by its expansion,
\* with interwiki = true; the URL that results, expanded or not, has to
\* start with `/` or satisfy is_url, else the rule fails with InvalidUrl.
C9_ValidityOfResultingUrl ==
    (/\ last.rule \in LinkRules
     /\ OriginalLink(last.before).kind = "ok") =>
        LET original == OriginalLink(last.before).value
            built == interwiki_build(original)
            url == IF built.some THEN built.value ELSE original
            valid == url # <<>> /\ (url[1] = "/" \/ is_url(url))
        IN  /\ ~valid <=> (last.result.kind = "err"
                           /\ last.result.warn.kind = "InvalidUrl")
            /\ last.result.kind = "ok" =>
                  /\ last.result.value[1].link.url = url
                  /\ last.result.value[1].interwiki = built.some

\* The resolver accepted the URL text, and its expansion was refused.
C9_Witness ==
    /\ last.rule \in LinkRules
    /\ OriginalLink(last.before).kind = "ok"
    /\ interwiki_build(OriginalLink(last.before).value).some
    /\ last.result.kind = "err"
    /\ last.result.warn.kind = "InvalidUrl"

\* The text of the tokens i..j.
RECURSIVE SliceText(_, _)
SliceText(i, j) ==
    IF i > j THEN <<>> ELSE tokens[i].slice \o SliceText(i + 1, j)

\* From token o: `[` url Whitespace label `]`, whitespace at w, `]` at c,
\* with no line break and no paragraph break inside.
LinkShape(o, w, c) ==
    /\ o < w /\ w < c /\ c <= Len(tokens)
    /\ tokens[w].token = "Whitespace"
    /\ tokens[c].token = "RightBracket"
    /\ \A j \in (o + 1)..(w - 1) :
          tokens[j].token \notin {"Whitespace", "RightBracket", "LineBreak",
                                  "ParagraphBreak", "InputEnd"}
    /\ \A j \in (w + 1)..(c - 1) :
          tokens[j].token \notin {"RightBracket", "LineBreak",
                                  "ParagraphBreak", "InputEnd"}

\* C10: for `[` url Whitespace label `]` without a LineBreak or
\* ParagraphBreak inside, with a url the resolver does not accept and that is
\* valid, the link rule succeeds with exactly one Link: the target is
\* Url(url) unchanged, the label is Text(the text between the whitespace and
\* `]`, trimmed on both sides), interwiki = false, target = None; for `[*`
\* the same with target = NewTab.
C10_PlainLink ==
    \A w, c \in 1..Len(tokens) :
        LET o == last.before.pos
            url == SliceText(o + 1, w - 1)
            label == SliceText(w + 1, c - 1)
        IN  (/\ last.rule \in LinkRules
             /\ LinkShape(o, w, c)
             /\ ~interwiki_build(url).some
             /\ url # <<>> /\ (url[1] = "/" \/ is_url(url))) =>
                /\ last.result.kind = "ok"
                /\ last.result.parser.pos = c + 1
                /\ Len(last.result.value) = 1
                /\ last.result.value[1].element = "Link"
                /\ last.result.value[1].link = [location |-> "Url", url |-> url]
                /\ last.result.value[1].label.label = "Text"
                /\ \E a, b \in 0..Len(label) :
                      /\ a + b <= Len(label)
                      /\ last.result.value[1].label.text
                             = SubSeq(label, a + 1, Len(label) - b)
                      /\ \A k \in (1..a) \cup ((Len(label) - b + 1)..Len(label)) :
                            IsWhitespaceChar(label[k])
                      /\ a + b < Len(label) =>
                            /\ ~IsWhitespaceChar(label[a + 1])
                            /\ ~IsWhitespaceChar(label[Len(label) - b])
                /\ last.result.value[1].interwiki = FALSE
                /\ last.result.value[1].target =
                      (IF last.rule = "link-single" THEN "None" ELSE "NewTab")

\* The new-tab link rule succeeded on a plain URL with a label whose end
\* was trimmed.
C10_Witness ==
    /\ Succeeded({"link-single-new-tab"})
    /\ ~last.result.value[1].interwiki
    /\ \E w, c \in 1..Len(tokens) :
          /\ LinkShape(last.before.pos, w, c)
          /\ SliceText(w + 1, c - 1) # last.result.value[1].label.text
          /\ last.result.value[1].label.text # <<>>

(***************************************************************************)
(* Claims about the items of the definition list                           *)
(***************************************************************************)
DefinitionItems == last.result.value[1].items

\* C11: an item whose key is empty after the whitespace was stripped makes
\* parse_item fail: the definition-list rule never produces an item with an
\* empty key.
C11_NoEmptyKey ==
    Succeeded({"definition-list"}) =>
        \A i \in 1..Len(DefinitionItems) : DefinitionItems[i].key # <<>>

\* The tokens i..j hold a line end before the last of them.
LineEndInside(i, j) ==
    \E t \in i..(j - 1) : tokens[t].token \in {"LineBreak", "ParagraphBreak"}

\* C12: when the definition-list rule succeeds it returns one DefinitionList
\* element with at least one item; the items are the `: key : value` lines
\* parsed with success, in source order, one item per line, each with key
\* and value stripped of whitespace on both sides.
C12_ItemsAreLines ==
    Succeeded({"definition-list"}) =>
        /\ Len(last.result.value) = 1
        /\ last.result.value[1].element = "DefinitionList"
        /\ Len(DefinitionItems) >= 1
        /\ \A k \in 1..Len(DefinitionItems) :
              LET from == AfterItems(last.before, k - 1)
                  item == parse_item(from)
              IN  /\ item.kind = "ok"
                  /\ DefinitionItems[k] = item.value.item
                  /\ strip_whitespace(DefinitionItems[k].key)
                         = DefinitionItems[k].key
                  /\ strip_whitespace(DefinitionItems[k].value)
                         = DefinitionItems[k].value
                  /\ ~LineEndInside(from.pos, item.parser.pos - 1)

\* In the item that starts at token `from`: the Whitespace of the first
\* `Whitespace Colon` pair of the key, and the first token after the pair
\* and the token that follows it that ends a line or the input.
KeyClose(from) ==
    Min({i \in (from + 2)..(Len(tokens) - 1) :
            tokens[i].token = "Whitespace" /\ tokens[i + 1].token = "Colon"})

ValueClose(from) ==
    Min({j \in (KeyClose(from) + 3)..Len(tokens) :
            tokens[j].token \in {"LineBreak", "ParagraphBreak", "InputEnd"}})

\* C13: an item whose value is closed by ParagraphBreak or InputEnd is the
\* last item of the list, the rule tries no item after it; an item whose
\* value is closed by LineBreak is followed by an attempt at another item.
C13_BreakAtParagraph ==
    Succeeded({"definition-list"}) =>
        \A k \in 1..Len(DefinitionItems) :
            LET from == AfterItems(last.before, k - 1)
                after == AfterItems(last.before, k)
                closing == tokens[ValueClose(from.pos)].token
            IN  /\ closing \in {"ParagraphBreak", "InputEnd"} =>
                      k = Len(DefinitionItems) /\ parser = after
                /\ closing = "LineBreak" =>
                      \/ k < Len(DefinitionItems)
                      \/ parse_item(after).kind = "err" /\ parser = after

\* The rule returned one item, closed by a ParagraphBreak, and left the
\* line after it, which parses as an item, where it is.
C13_Witness ==
    /\ Succeeded({"definition-list"})
    /\ Len(DefinitionItems) = 1
    /\ tokens[ValueClose(last.before.pos)].token = "ParagraphBreak"
    /\ parse_item(parser).kind = "ok"

(***************************************************************************)
(* Claims about the list rule                                              *)
(***************************************************************************)
\* The token where the bullet of the first line is looked for.
FirstBullet(before) ==
    IF tokens[before.pos + 1].token = "Whitespace"
    THEN before.pos + 2
    ELSE before.pos + 1

\* The line after the starting token is `[Whitespace] bullet Whitespace ...`
FirstLineIsItem(before) ==
    /\ FirstBullet(before) < Len(tokens)
    /\ tokens[FirstBullet(before)].token \in {"BulletItem", "NumberedItem"}
    /\ tokens[FirstBullet(before) + 1].token = "Whitespace"

\* C14: when the list rule succeeds, the type of the List it returns is the
\* type of its first collected item (Bullet for a BulletItem token, Numbered
\* for a NumberedItem token), and `top_list_type.unwrap()` does not fail.
C14_TopTypeOfFirstItem ==
    last.rule = "list" =>
        /\ last.result.kind # "panic"
        /\ last.result.kind = "ok" =>
              /\ last.result.value[1].element = "List"
              /\ FirstLineIsItem(last.before)
              /\ last.result.value[1].ltype =
                    (IF tokens[FirstBullet(last.before)].token = "BulletItem"
                     THEN "Bullet" ELSE "Numbered")

\* The rule returned a Numbered list that also collected a bullet item.
C14_Witness ==
    /\ Succeeded({"list"})
    /\ last.result.value[1].ltype = "Numbered"
    /\ \E t \in (last.before.pos + 1)..(parser.pos - 2) :
          tokens[t].token = "BulletItem" /\ tokens[t + 1].token = "Whitespace"

\* C15: when the list rule collects no item (the line after the starting
\* token is not `[Whitespace] bullet Whitespace ...`) it fails with a
\* warning and returns no List element.
C15_NoItemFails ==
    (last.rule = "list" /\ ~FirstLineIsItem(last.before)) =>
        /\ last.result.kind = "err"
        /\ last.result.warn.kind # "None"
        /\ last.result.value = <<>>

\* The rule failed on a line that begins with a bullet token and has no
\* whitespace after it: the type of the list was recorded, no item was.
C15_Witness ==
    /\ Failed({"list"})
    /\ tokens[last.before.pos + 1].token = "BulletItem"
    /\ ~FirstLineIsItem(last.before)

\* The List element `e` has an item for each entry of the depth list, in
\* order: Elements for an Item, and for a List a SubList that holds the
\* List element of the nested list, of the nested list's type.
RECURSIVE Corresponds(_, _)
Corresponds(list, e) ==
    /\ e.element = "List"
    /\ Len(e.items) = Len(list)
    /\ \A i \in 1..Len(list) :
          IF list[i].kind = "Item"
          THEN e.items[i] = ListItem_Elements(list[i].elements)
          ELSE /\ e.items[i].item = "SubList"
               /\ e.items[i].element.element = "List"
               /\ e.items[i].element.ltype = list[i].ltype
               /\ Corresponds(list[i].list, e.items[i].element)

\* The depth list the rule invoked at `before` hands to build_list_element.
DepthListOf(before) ==
    process_depths(
        list_loop(step(before).parser, None, <<>>, <<>>).top_list_type.value,
        list_loop(step(before).parser, None, <<>>, <<>>).depths)

\* C16: build_list_element maps a depth list to a List element whose items
\* are the entries of the depth list one to one and in order: an Item is
\* ListItem::Elements, a nested List is ListItem::SubList with the
\* Element::List of the nested list, of the nested list's own type; no
\* SubList holds an element that is not a List.
C16_ItemsOfDepthList ==
    Succeeded({"list"}) =>
        Corresponds(DepthListOf(last.before), last.result.value[1])

\* The rule returned a list with a nested list of the other type.
C16_Witness ==
    /\ Succeeded({"list"})
    /\ \E i \in 1..Len(last.result.value[1].items) :
          /\ last.result.value[1].items[i].item = "SubList"
          /\ last.result.value[1].items[i].element.ltype
                 # last.result.value[1].ltype

(***************************************************************************)
(* Claims about the conversion of the ruby block                           *)
(***************************************************************************)
IsRubyTextPartial(e) == e.element = "Partial" /\ e.partial = "RubyText"

\* C17: the conversion of the ruby rule replaces each direct child
\* Partial(RubyText{attributes, elements}) by Container{RubyText, the same
\* elements, the same attributes} in place: the children of the ruby body
\* keep their number and order, and a child that is not a RubyText partial
\* is left as it is.
C17_ConversionInPlace ==
    Succeeded({"block-ruby"}) =>
        LET given == block_body.value
            children == last.result.value[1].elements
        IN  /\ Len(children) = Len(given)
            /\ \A i \in 1..Len(given) :
                  IF IsRubyTextPartial(given[i])
                  THEN /\ children[i].element = "Container"
                       /\ children[i].ctype = "RubyText"
                       /\ children[i].elements = given[i].elements
                       /\ children[i].attributes = given[i].attributes
                  ELSE children[i] = given[i]

\* The ruby rule succeeded on a body of a text and, after it, a RubyText
\* partial with an attribute and an element.
C17_Witness ==
    /\ Succeeded({"block-ruby"})
    /\ Len(block_body.value) = 2
    /\ block_body.value[1].element = "Text"
    /\ IsRubyTextPartial(block_body.value[2])
    /\ block_body.value[2].attributes = "lang"
    /\ block_body.value[2].elements # <<>>

(***************************************************************************)
(* Further claims about the filter                                         *)
(***************************************************************************)
Count(t, c) == Cardinality({i \in 1..Len(t) : t[i] = c})

\* What one replacement of call number s makes smaller: the carriage
\* returns for the two newline calls, the tabs for TABS, the length for the
\* three calls whose replacement is shorter than any match.
Remaining(s, t) ==
    CASE s \in {DOS_NEWLINES, MAC_NEWLINES} -> Count(t, "CR")
      [] s = TABS                           -> Count(t, "TAB")
      [] OTHER                              -> Len(t)

\* C18: substitute terminates on every input and has no error outcome:
\* in each of the six regex_replace loops, a replacement leaves strictly
\* less of what the loop counts down (a natural number), so the loop
\* reaches a text with no match after finitely many replacements.
C18_LoopsTerminate ==
    (stage < Returned /\ Find(stage, text) # NoMatch) =>
        Remaining(stage,
                  ReplaceRange(text, Find(stage, text), Replacement(stage)))
            < Remaining(stage, text)

\* substitute has returned after two replacements in one loop: two lone
\* carriage returns became newlines.
C18_Witness ==
    /\ stage = Returned /\ pass = 1
    /\ input = <<"CR", "a", "CR", "a">>
    /\ text = <<"LF", "a", "LF", "a">>

\* t[a..b] is a run of three newlines or more, possibly with whitespace
\* between and around them, and the only place of t with a line end.
NewlineRun(t, a, b) ==
    /\ a <= b
    /\ \A k \in a..b : IsSpace(t[k])
    /\ a = 1 \/ ~IsSpace(t[a - 1])
    /\ b = Len(t) \/ ~IsSpace(t[b + 1])
    /\ \A k \in 1..Len(t) : t[k] \in {"LF", "CR"} => k \in a..b
    /\ Cardinality({k \in a..b : t[k] = "LF"}) >= 3

\* The run has a character that is not whitespace before it and after it,
\* and no backslash directly before its first line end.
Interior(t, a, b) ==
    /\ a > 1
    /\ b < Len(t)
    /\ ~(t[a - 1] = "BS" /\ t[a] \in {"LF", "CR"})

\* The line ends of t are two newlines, one directly after the other.
TwoNewlines(t) == Count(t, "LF") = 2 /\ Contains(t, <<"LF", "LF">>)

RECURSIVE LineEndsAsNewlines(_)
LineEndsAsNewlines(t) ==
    IF t = <<>> THEN <<>>
    ELSE IF Len(t) >= 2 /\ t[1] = "CR" /\ t[2] = "LF"
         THEN <<"LF">> \o LineEndsAsNewlines(SubSeq(t, 3, Len(t)))
    ELSE IF t[1] = "CR"
         THEN <<"LF">> \o LineEndsAsNewlines(Tail(t))
    ELSE <<t[1]>> \o LineEndsAsNewlines(Tail(t))

\* No whitespace-only line, no backslash, no tab and no run of three line
\* ends, the line ends being \r\n, \r and \n.
PlainLines(t) ==
    /\ ~Contains(t, <<"BS">>)
    /\ ~Contains(t, <<"TAB">>)
    /\ FindWhitespace(t) = NoMatch
    /\ FindWhitespace(LineEndsAsNewlines(t)) = NoMatch
    /\ ~HasNewlineRun(LineEndsAsNewlines(t))

\* C20: the \r\n replacement runs to completion before the lone \r
\* replacement, so each \r\n becomes exactly one newline and each \r that
\* remains becomes one newline: for an input without whitespace-only
\* lines, backslashes, tabs or runs of three line ends, the output of
\* substitute is the input with every \r\n and every other \r replaced by
\* one \n.
C20_LineEndsOneNewlineEach ==
    (stage = Returned /\ pass = 1 /\ PlainLines(input)) =>
        text = LineEndsAsNewlines(input)

\* The lines of t: what stands between its newlines.
RECURSIVE SplitLines(_)
SplitLines(t) ==
    LET m == FindLiteral(t, <<"LF">>)
    IN  IF m = NoMatch THEN <<t>>
        ELSE <<SubSeq(t, 1, m[1] - 1)>>
                 \o SplitLines(SubSeq(t, m[2] + 1, Len(t)))

\* The line holds a character that is not whitespace.
NonBlank(line) == \E k \in 1..Len(line) : ~IsSpace(line[k])

\* The line with four spaces for each tab, everything else as it is.
RECURSIVE ExpandTabs(_)
ExpandTabs(line) ==
    IF line = <<>> THEN <<>>
    ELSE (IF Head(line) = "TAB" THEN <<"SP", "SP", "SP", "SP">>
          ELSE <<Head(line)>>) \o ExpandTabs(Tail(line))

\* No backslash, no carriage return, and tabs only on lines that hold a
\* character that is not whitespace.
TabsOnTextLines(t) ==
    /\ ~Contains(t, <<"BS">>)
    /\ ~Contains(t, <<"CR">>)
    /\ \A i \in 1..Len(SplitLines(t)) :
          Contains(SplitLines(t)[i], <<"TAB">>) => NonBlank(SplitLines(t)[i])

\* C21: for an input with no backslash and no carriage return, in which
\* tabs occur only on lines that also hold a character that is not
\* whitespace, each tab appears in the output of substitute as exactly four
\* spaces at the same place in its line, and no other character of those
\* lines changes: the lines of the output that are not blank are the lines
\* of the input that are not blank, in order, with four spaces for each tab.
C21_TabsFourSpaces ==
    (stage = Returned /\ pass = 1 /\ TabsOnTextLines(input)) =>
        LET given == SelectSeq(SplitLines(input), NonBlank)
            lines == SelectSeq(SplitLines(text), NonBlank)
        IN  /\ Len(lines) = Len(given)
            /\ \A i \in 1..Len(given) : lines[i] = ExpandTabs(given[i])

\* substitute has returned for two lines with a tab each, one before and
\* one after the letter of the line.
C21_Witness ==
    /\ stage = Returned /\ pass = 1
    /\ input = <<"TAB", "a", "LF", "a", "TAB">>
    /\ TabsOnTextLines(input)
    /\ text = <<"SP", "SP", "SP", "SP", "a", "LF",
                "a", "SP", "SP", "SP", "SP">>

\* t without its line continuations: every backslash that is directly
\* followed by a newline is taken out together with that newline.
RECURSIVE WithoutContinuations(_)
WithoutContinuations(t) ==
    IF t = <<>> THEN <<>>
    ELSE IF Len(t) >= 2 /\ t[1] = "BS" /\ t[2] = "LF"
         THEN WithoutContinuations(SubSeq(t, 3, Len(t)))
    ELSE <<t[1]>> \o WithoutContinuations(Tail(t))

\* Nothing but the line continuations of t is for substitute to change: no
\* carriage return, no tab, no whitespace-only line, and no run of three
\* newlines once the continuations are out.
OnlyContinuations(t) ==
    /\ ~Contains(t, <<"CR">>)
    /\ ~Contains(t, <<"TAB">>)
    /\ FindWhitespace(t) = NoMatch
    /\ FindWhitespace(WithoutContinuations(t)) = NoMatch
    /\ ~HasNewlineRun(WithoutContinuations(t))

\* C22: substitute removes every backslash that is immediately followed by
\* a newline together with that newline, joining the two lines with nothing
\* in between, and preserves every backslash that is not immediately
\* followed by a newline: where the continuations are all there is to
\* change, the output is the input without them.
C22_ContinuationsOnly ==
    (stage = Returned /\ pass = 1 /\ OnlyContinuations(input)) =>
        text = WithoutContinuations(input)

(***************************************************************************)
(* Further claims about the parser                                         *)
(***************************************************************************)
\* C23: the em-dash rule matches whenever it is invoked: for any current
\* token and any following tokens it returns a result whose element is
\* Text(U+2014) and whose offset is exactly 1, independent of the input.
C23_EmDashAlwaysMatches ==
    (last.rule = "em-dash") =>
        /\ last.result.kind = "ok"
        /\ last.result.value = <<Element_Text(<<"EM_DASH">>)>>
        /\ last.result.parser.pos = last.before.pos + 1

\* The em-dash rule was run at an opening bracket, not its sigil, with an
\* identifier to follow.
C23_Witness ==
    /\ last.rule = "em-dash"
    /\ last.before.pos = 2
    /\ tokens[2].token = "LeftBracket"
    /\ tokens[3].token = "Identifier"

\* The exceptions that parse_item returned for the items of the list that
\* starts at p, in the order of the items.
RECURSIVE ItemExceptions(_)
ItemExceptions(p) ==
    With(parse_item(p), LAMBDA r :
        IF r.kind # "ok" THEN <<>>
        ELSE IF r.value.should_break THEN r.exceptions
        ELSE r.exceptions \o ItemExceptions(r.parser))

\* C25: the exceptions (warnings and other side results) returned by the
\* successfully parsed items of a definition list, from both key and value
\* collection, are included in source order in the success result of the
\* definition-list rule.
C25_ItemExceptionsIncluded ==
    Succeeded({"definition-list"}) =>
        last.result.exceptions = ItemExceptions(last.before)

\* C26: every rule that returns success has advanced the parser by at
\* least one token, so repeated rule dispatch at one position cannot loop
\* forever: this holds for em-dash, single-bracket link, list, definition
\* list and definition-list-skip-newline.
C26_SuccessAdvances ==
    Succeeded({"em-dash", "link-single", "link-single-new-tab", "list",
               "definition-list", "definition-list-skip-newline"}) =>
        last.result.parser.pos > last.before.pos

\* C27: when the list rule stops iterating at a line that is not a
\* well-formed item (indentation not followed by a bullet, or a bullet not
\* followed by Whitespace) after at least one item was collected, it
\* succeeds with the items collected so far and has consumed no token of
\* the rejected line: the parser is positioned at the first token of that
\* line.  A list that succeeded without reaching the end of the input
\* stopped at such a line.
C27_RejectedLineUntouched ==
    (Succeeded({"list"}) /\ current(last.result.parser).token # "InputEnd") =>
        start_of_line(last.result.parser)

\* The tokens from i on start a well-formed item: `[Whitespace] bullet
\* Whitespace`; the position of its content, or 0.
ItemContent(i) ==
    LET b == IF tokens[i].token = "Whitespace" THEN i + 1 ELSE i
    IN  IF /\ b < Len(tokens)
           /\ tokens[b].token \in {"BulletItem", "NumberedItem"}
           /\ tokens[b + 1].token = "Whitespace"
           /\ b + 2 <= Len(tokens)
        THEN b + 2
        ELSE 0

\* The first line end or input end from i on.
ContentEnd(i) ==
    Min({e \in i..Len(tokens) :
            tokens[e].token \in {"LineBreak", "ParagraphBreak", "InputEnd"}})

\* The loop that starts at token i comes to an item whose content reaches
\* a ParagraphBreak before a LineBreak or the end of the input.
RECURSIVE ReachesParagraphBreak(_)
ReachesParagraphBreak(i) ==
    /\ ItemContent(i) # 0
    /\ LET e == ContentEnd(ItemContent(i))
       IN  \/ tokens[e].token = "ParagraphBreak"
           \/ tokens[e].token = "LineBreak" /\ ReachesParagraphBreak(e + 1)

\* C28: if a ParagraphBreak is reached in a list item's content before a
\* LineBreak or InputEnd, the list rule fails as a whole and returns no List
\* element, also when earlier items had already been collected.
C28_ParagraphBreakFailsList ==
    (last.rule = "list" /\ ReachesParagraphBreak(last.before.pos + 1)) =>
        /\ last.result.kind = "err"
        /\ last.result.value = <<>>

\* The list rule failed at the ParagraphBreak of its second item, after the
\* first item was collected up to a LineBreak.
C28_Witness ==
    /\ Failed({"list"})
    /\ last.before.pos = 1
    /\ ItemContent(2) # 0
    /\ tokens[ContentEnd(ItemContent(2))].token = "LineBreak"
    /\ ReachesParagraphBreak(ContentEnd(ItemContent(2)) + 1)

(***************************************************************************)
(* tree/clone.rs and tree/link.rs: conversion to owned form.  A Cow<str>   *)
(* is its variant, Borrowed or Owned, and its characters.                  *)
(***************************************************************************)
Cow_Borrowed(str) == [cow |-> "Borrowed", str |-> str]
Cow_Owned(str) == [cow |-> "Owned", str |-> str]

\* Cow::Owned(string.clone().into_owned())
string_to_owned(string) == Cow_Owned(string.str)

option_string_to_owned(option_string) ==
    IF option_string.some
    THEN Some(string_to_owned(option_string.value))
    ELSE None

\* strings.iter().map(|string| string_to_owned(string)).collect()
strings_to_owned(strings) ==
    [i \in 1..Len(strings) |-> string_to_owned(strings[i])]

LinkLabel_Text(string) == [label |-> "Text", text |-> string]
LinkLabel_Url(url) == [label |-> "Url", url |-> url]
LinkLabel_Page == [label |-> "Page"]

\* LinkLabel::to_owned that forgets the label of a URL.
LinkLabel_to_owned_url_none(self) ==
    CASE self.label = "Text" -> LinkLabel_Text(string_to_owned(self.text))
      [] self.label = "Url"  -> LinkLabel_Url(None)
      [] self.label = "Page" -> LinkLabel_Page

LinkLabel_to_owned(self) ==
    CASE self.label = "Text" -> LinkLabel_Text(string_to_owned(self.text))
      [] self.label = "Url"  -> LinkLabel_Url(option_string_to_owned(self.url))
      [] self.label = "Page" -> LinkLabel_Page

\* Element::Text(Cow<str>) of the tree.
Element_Text_cow(string) == [element |-> "Text", text |-> string]

\* Element::to_owned, for a text element: the same element with its string
\* in owned form.
Element_to_owned(element) == Element_Text_cow(string_to_owned(element.text))

\* elements.iter().map(|element| element.to_owned()).collect()
elements_to_owned(elements) ==
    [i \in 1..Len(elements) |-> Element_to_owned(elements[i])]

\* ListItem::Elements(Vec<Element>) of the tree.
ListItem_Elements_cow(elements) == [item |-> "Elements", elements |-> elements]

\* ListItem::to_owned, for an item of elements.
ListItem_to_owned(list_item) ==
    ListItem_Elements_cow(elements_to_owned(list_item.elements))

\* list_items.iter().map(|list_item| list_item.to_owned()).collect()
list_items_to_owned(list_items) ==
    [i \in 1..Len(list_items) |-> ListItem_to_owned(list_items[i])]

\* The strings, borrowed and owned, that the values are built from.
Cows == {Cow_Borrowed(str) : str \in {<<>>, <<"a">>, <<"b">>}}
        \cup {Cow_Owned(str) : str \in {<<>>, <<"a">>}}

OptionStrings == {None} \cup {Some(string) : string \in Cows}

LinkLabels ==
    {LinkLabel_Text(string) : string \in Cows}
    \cup {LinkLabel_Url(url) : url \in OptionStrings}
    \cup {LinkLabel_Page}

CowElements == {Element_Text_cow(string) : string \in Cows}

CowListItems ==
    {ListItem_Elements_cow(elements) : elements \in Seqs(CowElements, 1)}

Subject(type, value) == [type |-> type, given |-> value]

\* The values of one type that the functions are called with.
Subjects(type) ==
    CASE type = "LinkLabel"        -> LinkLabels
      [] type = "Option<Cow<str>>" -> OptionStrings
      [] type = "[Cow<str>]"       -> Seqs(Cows, MaxOwned)
      [] type = "[Element]"        -> Seqs(CowElements, MaxOwned)
      [] type = "[ListItem]"       -> Seqs(CowListItems, MaxOwned)

SubjectTypes ==
    {"LinkLabel", "Option<Cow<str>>", "[Cow<str>]", "[Element]", "[ListItem]"}

Returns(fn, value) == [fn |-> fn, returned |-> value]

OwnedInit ==
    /\ \E type \in SubjectTypes :
          \E value \in Subjects(type) : subject = Subject(type, value)
    /\ owned = NoCall
    /\ NoRender
    /\ input = <<>> /\ text = <<>> /\ stage = Returned /\ pass = 2
    /\ first = <<>>
    /\ tokens = <<>> /\ interwiki = <<>> /\ parser = [pos |-> 0]
    /\ last = <<>> /\ block_body = <<>>

\* One call of a to_owned function on the subject.
Call(type, fn, value) ==
    /\ subject.type = type
    /\ owned = NoCall
    /\ owned' = Returns(fn, value)
    /\ UNCHANGED subject
    /\ UNCHANGED <<filterVars, parserVars, renderVars>>

LinkLabelToOwned ==
    Call("LinkLabel", "LinkLabel::to_owned", LinkLabel_to_owned(subject.given))

OptionStringToOwned ==
    Call("Option<Cow<str>>", "option_string_to_owned",
         option_string_to_owned(subject.given))

StringsToOwned ==
    Call("[Cow<str>]", "strings_to_owned", strings_to_owned(subject.given))

ElementsToOwned ==
    Call("[Element]", "elements_to_owned", elements_to_owned(subject.given))

ListItemsToOwned ==
    Call("[ListItem]", "list_items_to_owned",
         list_items_to_owned(subject.given))

OwnedNext ==
    \/ LinkLabelToOwned
    \/ OptionStringToOwned
    \/ StringsToOwned
    \/ ElementsToOwned
    \/ ListItemsToOwned

SpecOwned == OwnedInit /\ [][OwnedNext]_vars

(***************************************************************************)
(* Claims about the conversion to owned form                               *)
(***************************************************************************)
\* Two options hold the same string, or both none.
SameOption(a, b) ==
    /\ a.some = b.some
    /\ a.some => a.value.str = b.value.str

SameElement(a, b) == a.element = b.element /\ a.text.str = b.text.str

SameElements(a, b) ==
    /\ Len(a) = Len(b)
    /\ \A i \in 1..Len(a) : SameElement(a[i], b[i])

\* C24: converting to owned form preserves structure: LinkLabel::to_owned
\* returns the same variant with the same string contents (Text stays
\* Text, Url(None) stays Url(None), Url(Some(s)) stays Url(Some(s)), Page
\* stays Page), option_string_to_owned keeps None as None, and
\* strings_to_owned, elements_to_owned and list_items_to_owned keep length
\* and order.
C24_OwnedSameStructure ==
    (owned.fn # "none") =>
        LET given == subject.given
            got == owned.returned
        IN  CASE owned.fn = "LinkLabel::to_owned" ->
                   /\ got.label = given.label
                   /\ given.label = "Text" => got.text.str = given.text.str
                   /\ given.label = "Url" => SameOption(got.url, given.url)
              [] owned.fn = "option_string_to_owned" ->
                   /\ SameOption(got, given)
                   /\ given = None => got = None
              [] owned.fn = "strings_to_owned" ->
                   /\ Len(got) = Len(given)
                   /\ \A i \in 1..Len(given) : got[i].str = given[i].str
              [] owned.fn = "elements_to_owned" -> SameElements(got, given)
              [] owned.fn = "list_items_to_owned" ->
                   /\ Len(got) = Len(given)
                   /\ \A i \in 1..Len(given) :
                         /\ got[i].item = given[i].item
                         /\ SameElements(got[i].elements, given[i].elements)

\* LinkLabel::to_owned has returned for a URL label that holds a borrowed
\* string.
C24_Witness ==
    /\ owned.fn = "LinkLabel::to_owned"
    /\ subject.given = LinkLabel_Url(Some(Cow_Borrowed(<<"a">>)))
    /\ owned.returned = LinkLabel_Url(Some(Cow_Owned(<<"a">>)))

(***************************************************************************)
(* render/html/context.rs: the buffers of HtmlContext.  A string is a      *)
(* sequence of characters; "NUL" is U+0000, "fb" stands for the text       *)
(* `footnote-block`, "title" for the title element a footnote buffer       *)
(* starts with.  `style`, `id` and `handle` take no part in the writes.    *)
(***************************************************************************)
RenderChars == {"NUL", "fb", "a"}

\* const TOKEN: "\0footnote-block\0".
TOKEN == <<"NUL", "fb", "NUL">>

FootnoteContext_new == [buffer |-> <<"title">>, has_block |-> FALSE, count |-> 0]

has_footnotes(footnotes) == footnotes.count > 0

needs_block(footnotes) == footnotes.count > 0 /\ ~footnotes.has_block

contents(footnotes) == footnotes.buffer

HtmlContext_new ==
    [html |-> <<>>, write_mode |-> "Html", footnotes |-> FootnoteContext_new]

\* HtmlContext::buffer: the string the write mode selects.
buffer(c) ==
    IF c.write_mode = "Html" THEN c.html ELSE c.footnotes.buffer

\* The context after the string that buffer() hands out was changed to
\* `string`.
buffer_set(c, string) ==
    IF c.write_mode = "Html"
    THEN [c EXCEPT !.html = string]
    ELSE [c EXCEPT !.footnotes.buffer = string]

\* String::insert_str: idx counts the characters before the insertion.
String_insert_str(string, idx, s) ==
    SubSeq(string, 1, idx) \o s \o SubSeq(string, idx + 1, Len(string))

insert_str(c, idx, s) == buffer_set(c, String_insert_str(buffer(c), idx, s))

push(c, ch) == buffer_set(c, Append(buffer(c), ch))

push_str(c, s) == buffer_set(c, buffer(c) \o s)

write_str(c, s) == buffer_set(c, buffer(c) \o s)

\* write_footnote_block up to the call of f, and from the return of f.
write_footnote_block_call(c) == [c EXCEPT !.write_mode = "FootnoteBlock"]

write_footnote_block_return(c) == [c EXCEPT !.write_mode = "Html"]

\* The strings handed to a write: not empty, so that the buffer a write
\* went to is the one that changed.
WriteStrings == Seqs(RenderChars, 2) \ {<<>>}

WriteFns == {"push", "push_str", "insert_str", "write_str"}

\* The last call on the context: how many callbacks of write_footnote_block
\* were running, and which buffers it changed.
Wrote(fn, during, c) ==
    [fn |-> fn, during |-> during,
     html_changed |-> c.html # ctx.html,
     footnotes_changed |-> c.footnotes.buffer # ctx.footnotes.buffer]

NoWrite ==
    [fn |-> "none", during |-> 0,
     html_changed |-> FALSE, footnotes_changed |-> FALSE]

\* The buffers stay within the modelled lengths.
InBounds(c) ==
    /\ Len(c.html) <= MaxHtml
    /\ Len(c.footnotes.buffer) <= MaxBuffer

RenderInit ==
    /\ ctx = HtmlContext_new
    /\ frames = <<>>
    /\ written = NoWrite
    /\ pc = "idle"
    /\ NoTree
    /\ input = <<>> /\ text = <<>> /\ stage = Returned /\ pass = 2
    /\ first = <<>>
    /\ tokens = <<>> /\ interwiki = <<>> /\ parser = [pos |-> 0]
    /\ last = <<>> /\ block_body = <<>>

\* A call of one of the write functions, by the renderer or by a running
\* callback.
Written(fn, c) ==
    /\ pc = "idle"
    /\ InBounds(c)
    /\ ctx' = c
    /\ written' = Wrote(fn, Len(frames), c)
    /\ UNCHANGED <<frames, pc, filterVars, parserVars, treeVars>>

Push == \E ch \in RenderChars : Written("push", push(ctx, ch))

PushStr == \E s \in WriteStrings : Written("push_str", push_str(ctx, s))

InsertStr ==
    \E s \in WriteStrings, idx \in 0..Len(buffer(ctx)) :
        Written("insert_str", insert_str(ctx, idx, s))

WriteStr == \E s \in WriteStrings : Written("write_str", write_str(ctx, s))

\* write_footnote_block is called, by the renderer or by a running callback,
\* and calls f.
WriteFootnoteBlock ==
    /\ pc = "idle"
    /\ Len(frames) < MaxDepth
    /\ ctx' = write_footnote_block_call(ctx)
    /\ frames' = Append(frames, "f")
    /\ written' = Wrote("write_footnote_block", Len(frames), ctx)
    /\ UNCHANGED <<pc, filterVars, parserVars, treeVars>>

\* The innermost running callback returns Ok or Err, and write_footnote_block
\* returns that result.
CallbackReturns ==
    /\ pc = "idle"
    /\ frames # <<>>
    /\ \E result \in {"Ok", "Err"} :
        /\ ctx' = write_footnote_block_return(ctx)
        /\ frames' = SubSeq(frames, 1, Len(frames) - 1)
        /\ written' = Wrote(result, Len(frames) - 1, ctx)
    /\ UNCHANGED <<pc, filterVars, parserVars, treeVars>>

RenderNext ==
    \/ Push
    \/ PushStr
    \/ InsertStr
    \/ WriteStr
    \/ WriteFootnoteBlock
    \/ CallbackReturns

SpecRender == RenderInit /\ [][RenderNext]_vars

\* C29: every write through push, push_str, insert_str or write_str made
\* while a write_footnote_block callback is running goes to the footnote
\* buffer and leaves html unchanged; once the outermost call has returned,
\* with Ok or with Err, the write mode is Html and writes go to html.
C29_FootnoteWritesWhileCallbackRuns ==
    /\ (written.fn \in WriteFns /\ written.during > 0) =>
            written.footnotes_changed /\ ~written.html_changed
    /\ frames = <<>> => ctx.write_mode = "Html"
    /\ (written.fn \in WriteFns /\ written.during = 0) =>
            written.html_changed /\ ~written.footnotes_changed

(***************************************************************************)
(* HtmlContext::substitute_footnote_block, one step per evaluation of the  *)
(* loop condition and per run of the loop body.  The call is made on any   *)
(* context: any html buffer, any footnote buffer, count and has_block, by  *)
(* the renderer or by a running callback.                                  *)
(***************************************************************************)
\* str::find: the index of the first occurrence of pat, counted from 0.
String_find(string, pat) ==
    LET hits == {i \in 0..(Len(string) - Len(pat)) :
                    SubSeq(string, i + 1, i + Len(pat)) = pat}
    IN  IF hits = {} THEN None ELSE Some(Min(hits))

\* String::replace_range(from..to, with).
String_replace_range(string, from, to, with) ==
    SubSeq(string, 1, from) \o with \o SubSeq(string, to + 1, Len(string))

\* `block` of substitute_footnote_block.
block(c) ==
    IF has_footnotes(c.footnotes) THEN contents(c.footnotes) ELSE <<>>

\* The two assert_eq! of substitute_footnote_block hold.
substitute_asserts(c) ==
    /\ c.write_mode = "Html"
    /\ needs_block(c.footnotes) = FALSE

\* The body of the `while let` loop, run when find gave Some(idx).
substitute_loop_body(c) ==
    LET idx == String_find(c.html, TOKEN).value
    IN  [c EXCEPT !.html =
            String_replace_range(c.html, idx, idx + Len(TOKEN), block(c))]

\* The number of occurrences of pat in string.
Occurrences(string, pat) ==
    Cardinality({i \in 0..(Len(string) - Len(pat)) :
                    SubSeq(string, i + 1, i + Len(pat)) = pat})

SubstituteInit ==
    /\ \E html \in Seqs(RenderChars, MaxHtml), buf \in Seqs(RenderChars, MaxBuffer),
          mode \in {"Html", "FootnoteBlock"}, has_block \in BOOLEAN,
          count \in 0..MaxCount :
            ctx = [html |-> html, write_mode |-> mode,
                   footnotes |-> [buffer |-> buf, has_block |-> has_block,
                                  count |-> count]]
    /\ frames = IF ctx.write_mode = "Html" THEN <<>> ELSE <<"f">>
    /\ written = NoWrite
    /\ pc = "idle"
    /\ NoTree
    /\ input = <<>> /\ text = <<>> /\ stage = Returned /\ pass = 2
    /\ first = <<>>
    /\ tokens = <<>> /\ interwiki = <<>> /\ parser = [pos |-> 0]
    /\ last = <<>> /\ block_body = <<>>

\* The call, up to the loop: a failed assert_eq! panics.
SubstituteFootnoteBlock ==
    /\ pc = "idle"
    /\ pc' = IF substitute_asserts(ctx) THEN "find" ELSE "panic"
    /\ UNCHANGED <<ctx, frames, written, filterVars, parserVars, treeVars>>

\* The condition of the loop: `while let Some(idx) = self.html.find(TOKEN)`.
SubstituteFind ==
    /\ pc = "find"
    /\ pc' = IF String_find(ctx.html, TOKEN).some THEN "replace" ELSE "done"
    /\ UNCHANGED <<ctx, frames, written, filterVars, parserVars, treeVars>>

\* The body of the loop.  A string longer than MaxHtml is not modelled: the
\* run is cut off there.
SubstituteReplace ==
    /\ pc = "replace"
    /\ IF InBounds(substitute_loop_body(ctx))
       THEN ctx' = substitute_loop_body(ctx) /\ pc' = "find"
       ELSE ctx' = ctx /\ pc' = "cut"
    /\ UNCHANGED <<frames, written, filterVars, parserVars, treeVars>>

SubstituteNext ==
    \/ SubstituteFootnoteBlock
    \/ SubstituteFind
    \/ SubstituteReplace

\* A call that has begun goes on: the loop is sequential code.
SpecSubstitute ==
    /\ SubstituteInit
    /\ [][SubstituteNext]_vars
    /\ WF_vars(SubstituteNext)

\* C30: substitute_footnote_block terminates for every html buffer and
\* footnote buffer (a run that outgrows the modelled length counts as
\* ended), and afterwards html holds no occurrence of the placeholder.
C30_SubstituteTerminates ==
    (pc = "find") ~> (pc \in {"done", "cut"} /\
                        (pc = "done" => Occurrences(ctx.html, TOKEN) = 0))

====
